---- MODULE Spec2Model ----
(***************************************************************************)
(* Hash-based particle flow field (VectorFieldsnPartcFlow.c).              *)
(*                                                                         *)
(* The program is one thread: a frame loop that reads the host clock and   *)
(* the input state, spawns particles while the left button is held,        *)
(* updates every active particle and draws.  The model keeps the pool, the *)
(* loop position and the values read from the host.  The drawField toggle  *)
(* and the arrows it selects read and write nothing of the pool and are    *)
(* left out; of the draw step the model keeps the particles drawn and the  *)
(* particle count shown.                                                   *)
(*                                                                         *)
(* Arithmetic.  The C code computes in IEEE-754 binary32 (float) and in    *)
(* 32-bit unsigned integers.  A float is modelled bit-exactly as a record  *)
(* [s, m, e] of value (-1)^s * m * 2^e with m = 0 (zero) or                *)
(* 2^23 <= m < 2^24, rounded to nearest, ties to even, after every         *)
(* operation.  Subnormals, infinities and NaN do not occur for the values  *)
(* the model reaches.  A 32-bit unsigned value is a record [hi, lo] of two *)
(* 16-bit halves.                                                          *)
(***************************************************************************)
EXTENDS Integers, Sequences, FiniteSets, TLC

(***************************************************************************)
(* Integer helpers                                                         *)
(***************************************************************************)
Pow2Table ==
    <<1, 2, 4, 8, 16, 32, 64, 128, 256, 512, 1024, 2048, 4096, 8192, 16384,
      32768, 65536, 131072, 262144, 524288, 1048576, 2097152, 4194304, 8388608,
      16777216, 33554432, 67108864, 134217728, 268435456, 536870912, 1073741824>>

\* 2^n for n in 0..30.
Pow2(n) == Pow2Table[n + 1]

Abs(n) == IF n < 0 THEN -n ELSE n

Min(a, b) == IF a < b THEN a ELSE b

(***************************************************************************)
(* binary32 arithmetic                                                     *)
(***************************************************************************)
FZero == [s |-> 0, m |-> 0, e |-> 0]

\* Shift a significand below 2^23 left until it is normal (exact).
RECURSIVE NormUp(_, _)
NormUp(M, E) == IF M >= 8388608 THEN [m |-> M, e |-> E] ELSE NormUp(2 * M, E - 1)

\* Shift right down to 25 bits, folding the bits shifted out into the sticky bit.
RECURSIVE ShiftDown(_, _, _)
ShiftDown(M, E, st) ==
    IF M < 33554432 THEN [m |-> M, e |-> E, st |-> st]
    ELSE ShiftDown(M \div 2, E + 1, st \/ (M % 2 = 1))

\* Round the exact value (-1)^s * (M + f) * 2^E to binary32, nearest-even;
\* st says that the fraction f in [0,1) is not zero.  When st holds, M has
\* at least 25 bits, so f lies below the round bit.
FRound(s, M, E, st) ==
    IF M = 0 THEN FZero
    ELSE IF M < 16777216 THEN
        LET n == NormUp(M, E) IN [s |-> s, m |-> n.m, e |-> n.e]
    ELSE
        LET d    == ShiftDown(M, E, st)
            q    == d.m \div 2
            r    == d.m % 2
            up   == r = 1 /\ (d.st \/ q % 2 = 1)
            q1   == IF up THEN q + 1 ELSE q
        IN  IF q1 = 16777216 THEN [s |-> s, m |-> 8388608, e |-> d.e + 2]
            ELSE [s |-> s, m |-> q1, e |-> d.e + 1]

\* TRUE when FRound(s, M, E, st) discards a nonzero part (the IEEE inexact flag).
FInexact(M, E, st) ==
    IF M < 16777216 THEN st
    ELSE LET d == ShiftDown(M, E, st) IN d.st \/ d.m % 2 = 1

\* |a| >= |b| for normal or zero a, b.
MagGE(a, b) ==
    IF b.m = 0 THEN TRUE
    ELSE IF a.m = 0 THEN FALSE
    ELSE a.e > b.e \/ (a.e = b.e /\ a.m >= b.m)

\* The exact sum of a and b with |a| >= |b|, as [s, M, E, st] for FRound.
\* Up to 6 bits of exponent difference the sum is formed exactly; beyond
\* that b is aligned under three guard bits of a and its tail is sticky.
AddAligned(a, b) ==
    LET d    == a.e - b.e
        same == a.s = b.s
    IN  IF b.m = 0 THEN [s |-> a.s, M |-> a.m, E |-> a.e, st |-> FALSE]
        ELSE IF d <= 6 THEN
            [s |-> a.s,
             M |-> IF same THEN a.m * Pow2(d) + b.m ELSE a.m * Pow2(d) - b.m,
             E |-> b.e, st |-> FALSE]
        ELSE
            LET B    == IF d > 27 THEN 0 ELSE (b.m * 8) \div Pow2(d)
                tail == IF d > 27 THEN TRUE ELSE (b.m * 8) % Pow2(d) # 0
            IN  [s |-> a.s,
                 M |-> IF same THEN a.m * 8 + B
                       ELSE IF tail THEN a.m * 8 - B - 1 ELSE a.m * 8 - B,
                 E |-> a.e - 3, st |-> tail]

FAddParts(a, b) == IF MagGE(a, b) THEN AddAligned(a, b) ELSE AddAligned(b, a)

FAdd(a, b) == LET p == FAddParts(a, b) IN FRound(p.s, p.M, p.E, p.st)

FNeg(a) == IF a.m = 0 THEN a ELSE [a EXCEPT !.s = 1 - a.s]

FSub(a, b) == FAdd(a, FNeg(b))

\* TRUE when the float subtraction a - b is rounded.
FSubInexact(a, b) == LET p == FAddParts(a, FNeg(b)) IN FInexact(p.M, p.E, p.st)

\* The 48-bit product of two 24-bit significands, cut to its top 28 bits.
FMulParts(a, b) ==
    LET ah  == a.m \div 4096
        al  == a.m % 4096
        bh  == b.m \div 4096
        bl  == b.m % 4096
        low == al * bl
        mid == ah * bl + al * bh + low \div 4096
    IN  [M  |-> ah * bh * 16 + mid \div 256,
         st |-> mid % 256 # 0 \/ low % 4096 # 0]

FMul(a, b) ==
    IF a.m = 0 \/ b.m = 0 THEN FZero
    ELSE LET p == FMulParts(a, b)
         IN  FRound((a.s + b.s) % 2, p.M, a.e + b.e + 20, p.st)

\* Long division of significands: k more quotient bits of r / d, k <= 6.
DivStep(p, d, k) ==
    [q |-> p.q * Pow2(k) + (p.r * Pow2(k)) \div d, r |-> (p.r * Pow2(k)) % d]

\* floor(a.m * 2^26 / b.m) and the remainder.
FDivParts(a, b) ==
    LET p0 == [q |-> a.m \div b.m, r |-> a.m % b.m]
        p1 == DivStep(p0, b.m, 6)
        p2 == DivStep(p1, b.m, 6)
        p3 == DivStep(p2, b.m, 6)
        p4 == DivStep(p3, b.m, 6)
    IN  DivStep(p4, b.m, 2)

\* a / b for b # 0.
FDiv(a, b) ==
    IF a.m = 0 THEN FZero
    ELSE LET p == FDivParts(a, b)
         IN  FRound((a.s + b.s) % 2, p.q, a.e - b.e - 26, p.r # 0)

\* TRUE when the float division a / b is rounded.
FDivInexact(a, b) ==
    IF a.m = 0 THEN FALSE
    ELSE LET p == FDivParts(a, b) IN FInexact(p.q, a.e - b.e - 26, p.r # 0)

\* (float)n for an int n.
IntToFloat(n) == FRound(IF n < 0 THEN 1 ELSE 0, Abs(n), 0, FALSE)

\* The integral part of a (C's conversion to an integer type), for |a| < 2^31.
FTrunc(a) ==
    LET mag == IF a.m = 0 THEN 0
               ELSE IF a.e >= 0 THEN a.m * Pow2(a.e)
               ELSE IF a.e < -24 THEN 0
               ELSE a.m \div Pow2(-a.e)
    IN  IF a.s = 1 THEN -mag ELSE mag

FIsInt(a) == a.m = 0 \/ a.e >= 0 \/ (a.e >= -24 /\ a.m % Pow2(-a.e) = 0)

FLt(a, b) ==
    IF a.s # b.s THEN a.s = 1
    ELSE IF a.s = 0 THEN ~MagGE(a, b)
    ELSE ~MagGE(b, a)

FLe(a, b) == a = b \/ FLt(a, b)

(***************************************************************************)
(* 32-bit unsigned arithmetic (two 16-bit halves)                          *)
(***************************************************************************)
\* (unsigned int)v for an int v: negative values wrap to 2^32 + v.
U32OfInt(v) ==
    IF v >= 0 THEN [hi |-> v \div 65536, lo |-> v % 65536]
    ELSE [hi |-> 65535 - ((-v - 1) \div 65536), lo |-> 65535 - ((-v - 1) % 65536)]

\* a * b mod 2^32, by bytes so that no partial sum leaves 31 bits.
U32Mul(a, b) ==
    LET a0 == a.lo % 256
        a1 == a.lo \div 256
        a2 == a.hi % 256
        a3 == a.hi \div 256
        b0 == b.lo % 256
        b1 == b.lo \div 256
        b2 == b.hi % 256
        b3 == b.hi \div 256
        c0 == a0 * b0
        c1 == a0 * b1 + a1 * b0
        c2 == a0 * b2 + a1 * b1 + a2 * b0
        c3 == a0 * b3 + a1 * b2 + a2 * b1 + a3 * b0
        t0 == c0 + (c1 % 256) * 256
    IN  [hi |-> (t0 \div 65536 + c1 \div 256 + c2 + (c3 % 256) * 256) % 65536,
         lo |-> t0 % 65536]

\* a % n for 0 < n < 2^23, as an int.
U32Mod(a, n) == ((((((a.hi % n) * 256) % n) * 256) % n) + a.lo) % n

(***************************************************************************)
(* Simulation constants                                                    *)
(***************************************************************************)
\* The pool of the source holds 1000 particles; the model runs the same
\* code on a pool of MAX_PARTICLES slots, one more than a spawn burst.
MAX_PARTICLES == 6

VECTOR_GRID_SIZE == 40

SPAWN_COUNT == 5

HASH_MUL == 99991

HASH_MOD == 100000

\* FLOW_STRENGTH 0.8f and DAMPING_FACTOR 0.995f as binary32.
FLOW_STRENGTH == [s |-> 0, m |-> 13421773, e |-> -24]

DAMPING_FACTOR == [s |-> 0, m |-> 16693330, e |-> -24]

\* raylib's PI, 3.14159265358979323846f.
PI == [s |-> 0, m |-> 13176795, e |-> -22]

FOne == [s |-> 0, m |-> 8388608, e |-> -23]

\* The int literals of the source, converted to float where C converts them.
F0 == IntToFloat(0)

F2 == IntToFloat(2)

F10 == IntToFloat(10)

F180 == IntToFloat(180)

F255 == IntToFloat(255)

F75 == IntToFloat(255 - 180)

F100000 == IntToFloat(HASH_MOD)

\* (float)(VECTOR_GRID_SIZE * 2)
CellSize == IntToFloat(VECTOR_GRID_SIZE * 2)

Vec(x, y) == [x |-> x, y |-> y]

(***************************************************************************)
(* libm's sinf and cosf are outside the repository.  They are evaluated    *)
(* with Bhaskara's rational approximation on the angle cut to 2^-12 rad    *)
(* (absolute error below 0.002); the result is a function of the angle.    *)
(***************************************************************************)
\* sin of X * 2^-12 rad for 0 <= X <= 12868 (pi), as a float.
SinHalfTurn(X) ==
    LET p == X * (12868 - X)
    IN  FDiv(IntToFloat(16 * p), IntToFloat(5 * 12868 * 12868 - 4 * p))

\* sin of X * 2^-12 rad for any X >= 0.
SinFix(X) ==
    LET r == X % 25736
    IN  IF r <= 12868 THEN SinHalfTurn(r) ELSE FNeg(SinHalfTurn(r - 12868))

\* The angle a >= 0 in units of 2^-12 rad, cut to an integer.
AngleFix(a) == FTrunc([a EXCEPT !.e = @ + 12])

sinf(a) == SinFix(AngleFix(a))

cosf(a) == SinFix(AngleFix(a) + 6434)

(***************************************************************************)
(* GetVectorFieldForce                                                     *)
(***************************************************************************)
\* Variant: the cell is VECTOR_GRID_SIZE wide, as the drawn grid is.
CellIndexOneGrid(c) == FTrunc(FDiv(c, IntToFloat(VECTOR_GRID_SIZE)))

\* (int)(c / (VECTOR_GRID_SIZE * 2))
CellIndex(c) == FTrunc(FDiv(c, CellSize))

\* unsigned int seed = (unsigned int)(ix * 13 + iy * 23)
HashSeed(ix, iy) == U32OfInt(ix * 13 + iy * 23)

\* Variant: the product is formed in 64 bits and never wraps.
AngleNumeratorWide(seed) == (-9 * U32Mod(seed, HASH_MOD)) % HASH_MOD

\* (seed * 99991) % 100000, in unsigned int
AngleNumerator(seed) == U32Mod(U32Mul(seed, U32OfInt(HASH_MUL)), HASH_MOD)

\* (float)numerator / 100000.0f * 2.0f * PI
AngleOf(num) ==
    FMul(FMul(FDiv(IntToFloat(num), F100000), F2), PI)

\* The locals of GetVectorFieldForce and the vector it returns.
FieldLocals(x, y, time) ==
    LET ix    == CellIndex(x)
        iy    == CellIndex(y)
        seed  == HashSeed(ix, iy)
        num   == AngleNumerator(seed)
        angle == AngleOf(num)
    IN  [ix |-> ix, iy |-> iy, seed |-> seed, num |-> num, angle |-> angle,
         force |-> Vec(FMul(cosf(angle), FLOW_STRENGTH),
                       FMul(sinf(angle), FLOW_STRENGTH))]

GetVectorFieldForce(x, y, time) == FieldLocals(x, y, time).force

(***************************************************************************)
(* Bounds and inputs of the model                                          *)
(***************************************************************************)
\* Frames run by Spec, and by SpecSteady (constant frame time).
MaxFrames == 3

MaxSteadyFrames == 7

\* Frame times GetFrameTime() supplies: 0 (raylib's first frame), 2^-24 s,
\* 1/60 s (the target frame rate), 2 s and 10 s.
FrameTimes ==
    {FZero, [s |-> 0, m |-> 8388608, e |-> -47], [s |-> 0, m |-> 8947849, e |-> -29],
     F2, F10}

\* Pointer positions GetMousePosition() supplies.
MousePositions == {Vec(IntToFloat(500), IntToFloat(300))}

\* Runs of values the GetRandomValue(-10, 10) calls of one burst return: for
\* each of the five particles the x offset, then the y offset.
Bursts ==
    { << <<-10, 10>>, <<10, 0>>, <<0, -10>>, <<3, -7>>, <<-1, 1>> >>,
      << <<10, -10>>, <<-10, -10>>, <<0, 0>>, <<10, 10>>, <<-6, 9>> >> }

\* What the conversion of an out-of-range float to unsigned char (undefined
\* in C) yields: the low byte of the truncated value, or the value clamped
\* to 0..255.
Builds == {"wrap", "saturate"}

Slots == 0 .. (MAX_PARTICLES - 1)

(***************************************************************************)
(* State                                                                   *)
(***************************************************************************)
VARIABLES
    particles,   \* Particle particles[MAX_PARTICLES]
    dt,          \* float dt = GetFrameTime()
    time,        \* float time = (float)GetTime()
    mouseDown,   \* IsMouseButtonDown(MOUSE_LEFT_BUTTON) of this frame
    mousePos,    \* Vector2 mousePos = GetMousePosition() of the last burst
    pc,          \* position in the frame loop
    frame,       \* frames completed
    drawn,       \* slots drawn by the last draw step
    shown,       \* the particle count shown by the last draw step
    age,         \* history: Update steps each slot took since it was spawned
    probe,       \* arguments of a stand-alone GetVectorFieldForce evaluation
    out          \* and its results

vars == <<particles, dt, time, mouseDown, mousePos, pc, frame,
          drawn, shown, age, probe, out>>

None == [none |-> TRUE]

Color(r, g, b, a) == [r |-> r, g |-> g, b |-> b, a |-> a]

\* Particle particles[MAX_PARTICLES] = { 0 }, active = false
ZeroParticle ==
    [position |-> Vec(FZero, FZero), velocity |-> Vec(FZero, FZero),
     color |-> Color(0, 0, 0, 0), life |-> FZero, active |-> FALSE]

ActiveSlots(ps) == {i \in Slots : ps[i].active}

InitPool ==
    /\ particles = [i \in Slots |-> ZeroParticle]
    /\ dt = FZero
    /\ time = FZero
    /\ mouseDown = FALSE
    /\ mousePos = Vec(FZero, FZero)
    /\ frame = 0
    /\ drawn = {}
    /\ shown = 0
    /\ age = [i \in Slots |-> 0]

Init ==
    /\ InitPool
    /\ pc = "frame"
    /\ probe = None
    /\ out = None

(***************************************************************************)
(* Particle emitter                                                        *)
(***************************************************************************)
\* Variant: a full pool hands out slot 0 again.
RECURSIVE FirstInactiveOrZero(_, _)
FirstInactiveOrZero(ps, j) ==
    IF j = MAX_PARTICLES THEN 0
    ELSE IF ~ps[j].active THEN j
    ELSE FirstInactiveOrZero(ps, j + 1)

\* The inner loop: the first j with !particles[j].active, MAX_PARTICLES if none.
RECURSIVE FirstInactive(_, _)
FirstInactive(ps, j) ==
    IF j = MAX_PARTICLES THEN MAX_PARTICLES
    ELSE IF ~ps[j].active THEN j
    ELSE FirstInactive(ps, j + 1)

\* Variant: the offset is applied twice.
SpawnedParticleWide(origin, jit) ==
    [position |-> Vec(FAdd(origin.x, IntToFloat(2 * jit[1])),
                      FAdd(origin.y, IntToFloat(2 * jit[2]))),
     velocity |-> Vec(FZero, FZero),
     color    |-> Color(0, 180, 255, 255),
     life     |-> FOne,
     active   |-> TRUE]

SpawnedParticle(origin, jit) ==
    [position |-> Vec(FAdd(origin.x, IntToFloat(jit[1])),
                      FAdd(origin.y, IntToFloat(jit[2]))),
     velocity |-> Vec(FZero, FZero),
     color    |-> Color(0, 180, 255, 255),
     life     |-> FOne,
     active   |-> TRUE]

SpawnOne(ps, origin, jit) ==
    LET j == FirstInactive(ps, 0)
    IN  IF j = MAX_PARTICLES THEN ps
        ELSE [ps EXCEPT ![j] = SpawnedParticle(origin, jit)]

\* Variant: the burst loop stops one request short.
RECURSIVE SpawnShort(_, _, _, _)
SpawnShort(ps, origin, jits, i) ==
    IF i >= SPAWN_COUNT - 1 THEN ps
    ELSE SpawnShort(SpawnOne(ps, origin, jits[i + 1]), origin, jits, i + 1)

\* for (int i = 0; i < 5; i++) ...
RECURSIVE Spawn(_, _, _, _)
Spawn(ps, origin, jits, i) ==
    IF i = SPAWN_COUNT THEN ps
    ELSE Spawn(SpawnOne(ps, origin, jits[i + 1]), origin, jits, i + 1)

(***************************************************************************)
(* Particle update                                                         *)
(***************************************************************************)
\* (unsigned char)f
UCharOf(f, b) ==
    LET t == FTrunc(f)
    IN  IF t \in 0 .. 255 THEN t
        ELSE IF b = "wrap" THEN t % 256
        ELSE IF t < 0 THEN 0 ELSE 255

\* Variant: the frame time is divided by 100.
DecaySlow(life, d) == FSub(life, FDiv(d, IntToFloat(100)))

\* Variant: the decay is added.
DecayGrowing(life, d) == FAdd(life, FDiv(d, F10))

\* particles[i].life -= dt / 10.0f
Decay(life, d) == FSub(life, FDiv(d, F10))

\* The float values the three channels are converted from.
AlphaOf(life) == FMul(F255, life)

RedOf(life) == FAdd(F0, FMul(F255, FSub(FOne, life)))

GreenOf(life) == FAdd(F180, FMul(F75, FSub(FOne, life)))

\* Variant: the particle is never deactivated.
UpdateParticleKeepsActive(p, d, t, b) ==
    LET force == GetVectorFieldForce(p.position.x, p.position.y, t)
        vx    == FMul(FAdd(p.velocity.x, FMul(force.x, d)), DAMPING_FACTOR)
        vy    == FMul(FAdd(p.velocity.y, FMul(force.y, d)), DAMPING_FACTOR)
        life  == FSub(p.life, FDiv(d, F10))
    IN  [position |-> Vec(FAdd(p.position.x, vx), FAdd(p.position.y, vy)),
         velocity |-> Vec(vx, vy),
         color    |-> Color(UCharOf(FAdd(F0, FMul(F255, FSub(FOne, life))), b),
                            UCharOf(FAdd(F180, FMul(F75, FSub(FOne, life))), b),
                            p.color.b, UCharOf(FMul(F255, life), b)),
         life     |-> life,
         active   |-> TRUE]

UpdateParticle(p, d, t, b) ==
    LET force == GetVectorFieldForce(p.position.x, p.position.y, t)
        vx    == FMul(FAdd(p.velocity.x, FMul(force.x, d)), DAMPING_FACTOR)
        vy    == FMul(FAdd(p.velocity.y, FMul(force.y, d)), DAMPING_FACTOR)
        life  == Decay(p.life, d)
    IN  [position |-> Vec(FAdd(p.position.x, vx), FAdd(p.position.y, vy)),
         velocity |-> Vec(vx, vy),
         color    |-> Color(UCharOf(RedOf(life), b), UCharOf(GreenOf(life), b),
                            p.color.b, UCharOf(AlphaOf(life), b)),
         life     |-> life,
         active   |-> ~FLe(life, FZero)]

\* Variant: the active flag is not tested.
UpdateAllEvery(ps, d, t, b) == [i \in Slots |-> UpdateParticle(ps[i], d, t, b)]

UpdateAll(ps, d, t, b) ==
    [i \in Slots |-> IF ps[i].active THEN UpdateParticle(ps[i], d, t, b) ELSE ps[i]]

(***************************************************************************)
(* The frame loop                                                          *)
(***************************************************************************)
\* while (!WindowShouldClose()): read the clock and the input state.
BeginFrame(d) ==
    /\ pc = "frame"
    /\ dt' = d
    /\ time' = FAdd(time, d)
    /\ mouseDown' \in BOOLEAN
    /\ pc' = "emit"
    /\ UNCHANGED <<particles, mousePos, frame, drawn, shown, age, probe, out>>

FrameStart ==
    /\ frame < MaxFrames
    /\ \E d \in FrameTimes : BeginFrame(d)

\* The host keeps the frame time constant (SetTargetFPS).
FrameStartSteady ==
    /\ frame < MaxSteadyFrames
    /\ \E d \in FrameTimes : (frame = 0 \/ d = dt) /\ BeginFrame(d)

Emit ==
    /\ pc = "emit"
    /\ IF mouseDown
       THEN \E origin \in MousePositions, jits \in Bursts :
                /\ mousePos' = origin
                /\ particles' = Spawn(particles, origin, jits, 0)
                /\ age' = [i \in Slots |->
                             IF ~particles[i].active /\ particles'[i].active
                             THEN 0 ELSE age[i]]
       ELSE UNCHANGED <<particles, mousePos, age>>
    /\ pc' = "update"
    /\ UNCHANGED <<dt, time, mouseDown, frame,
                   drawn, shown, probe, out>>

\* TRUE when the step converts a float outside 0..255 to unsigned char.
OutOfRange(life) ==
    \/ FTrunc(AlphaOf(life)) \notin 0 .. 255
    \/ FTrunc(RedOf(life)) \notin 0 .. 255
    \/ FTrunc(GreenOf(life)) \notin 0 .. 255

Undefined(ps, d) == \E i \in Slots : ps[i].active /\ OutOfRange(Decay(ps[i].life, d))

Update ==
    /\ pc = "update"
    /\ \E b \in IF Undefined(particles, dt) THEN Builds ELSE {"wrap"} :
           particles' = UpdateAll(particles, dt, time, b)
    /\ age' = [i \in Slots |-> IF particles[i].active THEN age[i] + 1 ELSE age[i]]
    /\ pc' = "draw"
    /\ UNCHANGED <<dt, time, mouseDown, mousePos, frame,
                   drawn, shown, probe, out>>

Draw ==
    /\ pc = "draw"
    /\ drawn' = ActiveSlots(particles)
    /\ shown' = Cardinality(ActiveSlots(particles))
    /\ frame' = frame + 1
    /\ pc' = "frame"
    /\ UNCHANGED <<particles, dt, time, mouseDown, mousePos,
                   age, probe, out>>

\* WindowShouldClose() returns true: CloseWindow(), return 0.
Close ==
    /\ pc = "frame"
    /\ pc' = "closed"
    /\ UNCHANGED <<particles, dt, time, mouseDown, mousePos, frame,
                   drawn, shown, age, probe, out>>

(***************************************************************************)
(* GetVectorFieldForce on its own: two calls on arguments drawn from the   *)
(* probe sets.                                                             *)
(***************************************************************************)
\* x arguments: around the cell borders at 0, 80 and 160, the largest float
\* below 80, 79.5, and cells -1000, 3500 and 6000.
ProbeX ==
    {IntToFloat(-81), IntToFloat(-79), FZero, IntToFloat(79),
     [s |-> 0, m |-> 10420224, e |-> -17], [s |-> 0, m |-> 10485759, e |-> -17],
     IntToFloat(80), IntToFloat(159), IntToFloat(-80000), IntToFloat(280040),
     IntToFloat(480000)}

ProbeY == {IntToFloat(-160), IntToFloat(-1), FZero, IntToFloat(79), IntToFloat(240)}

ProbeTimes == {FZero, IntToFloat(7)}

Probes ==
    [x1 : ProbeX, y1 : ProbeY, t1 : ProbeTimes, x2 : ProbeX, y2 : ProbeY, t2 : ProbeTimes]

InitField ==
    /\ InitPool
    /\ pc = "field"
    /\ probe \in Probes
    /\ out = None

EvalField ==
    /\ pc = "field"
    /\ out' = [a |-> FieldLocals(probe.x1, probe.y1, probe.t1),
               b |-> FieldLocals(probe.x2, probe.y2, probe.t2)]
    /\ pc' = "done"
    /\ UNCHANGED <<particles, dt, time, mouseDown, mousePos, frame, drawn, shown,
                   age, probe>>

NextField == EvalField

SpecField == InitField /\ [][NextField]_vars

Next == FrameStart \/ Emit \/ Update \/ Draw \/ Close

Spec == Init /\ [][Next]_vars

NextSteady == FrameStartSteady \/ Emit \/ Update \/ Draw \/ Close

SpecSteady == Init /\ [][NextSteady]_vars

(***************************************************************************)
(* Properties                                                              *)
(***************************************************************************)
Count(ps) == Cardinality(ActiveSlots(ps))

Spawning == pc = "emit" /\ mouseDown

\* ---- Pool capacity ----

\* C1: at most MAX_PARTICLES slots are active in every state, the pool keeps
\* its MAX_PARTICLES slots, and a burst requested when no slot is inactive
\* changes no slot and goes on to the update step.
PoolCapacityHolds ==
    [][/\ DOMAIN particles' = Slots
       /\ Count(particles') <= MAX_PARTICLES
       /\ (Spawning /\ ActiveSlots(particles) = Slots
              => particles' = particles /\ pc' = "update")]_vars

\* A burst was requested while every slot was active since an earlier frame.
FullPoolBurstSeen ==
    /\ pc = "update"
    /\ mouseDown
    /\ \A i \in Slots : particles[i].active /\ age[i] >= 1

\* C2: a burst raises the number of active slots to
\* min(MAX_PARTICLES, number before + 5): by exactly 5 when 5 slots are
\* inactive, by nothing when none is.
SpawnCountExact ==
    [][Spawning =>
          Count(particles') = Min(MAX_PARTICLES, Count(particles) + SPAWN_COUNT)]_vars

\* A burst filled the last inactive slots of a pool that held older particles.
PartialBurstSeen ==
    /\ pc = "update"
    /\ mouseDown
    /\ ActiveSlots(particles) = Slots
    /\ \E i \in Slots : age[i] = 0
    /\ \E i \in Slots : age[i] >= 1

\* ---- Spawn ----

\* The position lies at an integer offset dx, dy in -10..10 from the origin.
InSpawnBox(position, origin) ==
    /\ FIsInt(position.x) /\ FIsInt(position.y)
    /\ FTrunc(position.x) - FTrunc(origin.x) \in -10 .. 10
    /\ FTrunc(position.y) - FTrunc(origin.y) \in -10 .. 10

\* C3: a burst changes only slots that were inactive; each slot it activates
\* has life 1.0, velocity (0,0), color (0,180,255,255) and a position in the
\* 21x21 box centred on the pointer; active slots keep every field.
SpawnInitialisesSlot ==
    [][Spawning =>
          \A i \in Slots :
              IF particles[i].active \/ ~particles'[i].active
              THEN particles'[i] = particles[i]
              ELSE /\ particles'[i].life = FOne
                   /\ particles'[i].velocity = Vec(FZero, FZero)
                   /\ particles'[i].color = Color(0, 180, 255, 255)
                   /\ InSpawnBox(particles'[i].position, mousePos')]_vars

\* A burst at (500,300) put a particle on the left edge of the box.
SpawnAtPointerSeen ==
    /\ pc = "update"
    /\ mouseDown
    /\ mousePos = Vec(IntToFloat(500), IntToFloat(300))
    /\ \E i \in Slots :
           /\ particles[i].active /\ age[i] = 0
           /\ particles[i].position.x = IntToFloat(490)

\* ---- Decay ----

\* d / 10 is a dyadic rational exactly when 5 divides the significand of d;
\* the float division is then exact.
TenthIsDyadic(d) == d.m % 5 = 0

\* after = before - d/10 over the reals: d/10 is dyadic, and the float
\* subtraction that yields after discards nothing.
DecayedExactly(before, d, after) ==
    /\ TenthIsDyadic(d)
    /\ ~FSubInexact(before, FDiv(d, F10))
    /\ after = FSub(before, FDiv(d, F10))

\* floor(|a| * 2^26) with the sign of a, for |a| < 32.
Fix26(a) ==
    LET k   == a.e + 26
        mag == IF a.m = 0 \/ k < -30 THEN 0
               ELSE IF k >= 0 THEN a.m * Pow2(k) ELSE a.m \div Pow2(-k)
    IN  IF a.s = 1 THEN -mag ELSE mag

\* |before - after - d/10| < 2^-21, compared on the 2^-26 grid.
DecayedWithinRounding(before, d, after) ==
    Abs(10 * (Fix26(before) - Fix26(after)) - Fix26(d)) <= 160

\* C4 as stated: the life of every particle active at the start of an Update
\* step is lowered by exactly dt/10.
LifeLoweredByExactTenth ==
    [][pc = "update" =>
          \A i \in Slots : particles[i].active =>
              DecayedExactly(particles[i].life, dt, particles'[i].life)]_vars

\* C4 as amended: the life of every particle active at the start of an Update
\* step is lowered by dt/10 up to float rounding (error below 2^-21), also
\* in the step that deactivates it.
LifeLoweredByRoundedTenth ==
    [][pc = "update" =>
          \A i \in Slots : particles[i].active =>
              DecayedWithinRounding(particles[i].life, dt, particles'[i].life)]_vars

\* An Update with dt = 2 (dt/10 is no float) has lowered the life of a fresh particle.
RoundedDecaySeen ==
    /\ pc = "draw"
    /\ dt = F2
    /\ \E i \in Slots : age[i] = 1 /\ FLt(particles[i].life, FOne)

\* C5 as stated: across every Update step the life of an active particle
\* gets strictly smaller, whatever dt >= 0 the clock supplied.
LifeStrictlyDecreases ==
    [][pc = "update" =>
          \A i \in Slots : particles[i].active =>
              FLt(particles'[i].life, particles[i].life)]_vars

\* 2^-20 s: from this frame time on dt/10 exceeds half an ulp of any life <= 1.
MinDecayingDt == [s |-> 0, m |-> 8388608, e |-> -43]

\* C5 as amended: across an Update step the life of an active particle never
\* grows; it stays equal when dt = 0 and gets strictly smaller when
\* dt >= 2^-20 s.
LifeNeverGrows ==
    [][pc = "update" =>
          \A i \in Slots : particles[i].active =>
              /\ FLe(particles'[i].life, particles[i].life)
              /\ dt = FZero => particles'[i].life = particles[i].life
              /\ FLe(MinDecayingDt, dt) =>
                     FLt(particles'[i].life, particles[i].life)]_vars

\* A particle went through an Update with dt = 0 and kept its full life.
ZeroFrameTimeSeen ==
    /\ pc = "draw"
    /\ dt = FZero
    /\ \E i \in Slots : particles[i].active /\ age[i] >= 1 /\ particles[i].life = FOne

\* ---- Deactivation ----

\* C6: a particle whose life is <= 0 after an Update step is inactive at the
\* end of that step, so no slot is ever active with life <= 0; Update leaves
\* every field of an inactive slot unchanged and the draw step draws only
\* active slots.
DeadSlotsAreLeftAlone ==
    /\ [](\A i \in Slots : particles[i].active => FLt(FZero, particles[i].life))
    /\ [][/\ pc = "update" =>
              \A i \in Slots :
                  /\ FLe(particles'[i].life, FZero) => ~particles'[i].active
                  /\ ~particles[i].active => particles'[i] = particles[i]
          /\ pc = "draw" =>
              \A i \in Slots : ~particles[i].active => i \notin drawn']_vars

\* A slot that died in an earlier frame went through an Update step.
DeadSlotSkippedSeen ==
    /\ pc = "draw"
    /\ ~mouseDown
    /\ frame >= 1
    /\ \E i \in Slots :
           /\ ~particles[i].active /\ age[i] >= 1 /\ i \notin drawn
           /\ FLe(particles[i].life, FZero)

\* n * d >= 10 over the reals, for 0 <= n < 64.
TenSecondsReached(n, d) ==
    IF d.m = 0 \/ n <= 0 THEN FALSE
    ELSE IF d.e >= 0 THEN TRUE
    ELSE IF d.e < -27 THEN FALSE
    ELSE n * d.m >= 10 * Pow2(-d.e)

\* C7 as stated: at a constant frame time dt > 0 no particle is active once
\* the Update steps it went through add up to 10 seconds.
DeadAfterTenSeconds ==
    \A i \in Slots : particles[i].active => ~TenSecondsReached(age[i], dt)

\* 2^-8 s: above this frame time the rounding of some 2560 steps stays below dt/10.
MinSteadyDt == [s |-> 0, m |-> 8388608, e |-> -31]

\* C7 as amended: at a constant frame time dt >= 2^-8 s a particle is
\* deactivated at the latest in the Update step after the one in which its
\* simulated time reaches 10 seconds.
DeadOneStepAfterTenSeconds ==
    \A i \in Slots :
        particles[i].active /\ FLe(MinSteadyDt, dt) =>
            ~TenSecondsReached(age[i] - 1, dt)

\* At dt = 2 a particle was deactivated by its sixth Update step, 12 s in.
SixthStepDeathSeen ==
    /\ pc = "draw"
    /\ dt = F2
    /\ \E i \in Slots :
           ~particles[i].active /\ age[i] = 6 /\ FLe(particles[i].life, FZero)

\* ---- Color ----

InUnit(life) == FLe(FZero, life) /\ FLe(life, FOne)

InByte(f) == FLe(FZero, f) /\ FLe(f, F255)

\* C10: the life every color was last computed from lies in [0,1], and so
\* the floats converted to the alpha, red and green channels lie in 0..255
\* (green in 180..255).
ColorInputsInRange ==
    \A i \in Slots :
        /\ InUnit(particles[i].life)
        /\ InByte(AlphaOf(particles[i].life))
        /\ InByte(RedOf(particles[i].life))
        /\ InByte(GreenOf(particles[i].life))
        /\ FLe(F180, GreenOf(particles[i].life))

\* ---- Vector field ----

\* trunc(c / 80) over the reals, for a float |c| < 2^24.
ExactCell(c) ==
    LET mag == IF c.m = 0 \/ c.e < -24 THEN 0
               ELSE IF c.e >= 0 THEN (c.m * Pow2(c.e)) \div 80
               ELSE c.m \div (80 * Pow2(-c.e))
    IN  IF c.s = 1 THEN -mag ELSE mag

SameCell ==
    /\ ExactCell(probe.x1) = ExactCell(probe.x2)
    /\ ExactCell(probe.y1) = ExactCell(probe.y2)

\* C8: two calls on positions of one cell return the same angle and the same
\* vector, whatever the two time arguments.
FieldDependsOnCellOnly ==
    out # None /\ SameCell =>
        /\ out.a.num = out.b.num
        /\ out.a.angle = out.b.angle
        /\ out.a.force = out.b.force

\* (0,0) and (79,79) were evaluated at two different times.
SameCellProbeSeen ==
    /\ out # None
    /\ probe.x1 = FZero /\ probe.y1 = FZero
    /\ probe.x2 = IntToFloat(79) /\ probe.y2 = IntToFloat(79)
    /\ probe.t1 # probe.t2

\* How often 99991 * a passes a multiple of 2^32, for 0 <= a < 85908.
Wraps(a) == IF a < 42954 THEN 0 ELSE 1

\* (((v mod 2^32) * 99991) mod 2^32) mod 100000 for |v| < 85908, from
\* 99991 = -9 and 2^32 = 67296 modulo 100000.
WrappedNumerator(v) ==
    IF v >= 0 THEN (-9 * v - 67296 * Wraps(v)) % 100000
    ELSE (-9 * v + 67296 * (Wraps(-v) + 1)) % 100000

\* The largest float below 2 * pi.
BelowTwoPi == [s |-> 0, m |-> 13176794, e |-> -21]

NumeratorWraps(l, x, y) ==
    /\ l.num = WrappedNumerator(ExactCell(x) * 13 + ExactCell(y) * 23)
    /\ l.num \in 0 .. 99999
    /\ FLe(FZero, l.angle) /\ FLe(l.angle, BelowTwoPi)
    /\ ExactCell(x) = 0 /\ ExactCell(y) = 0 => l.num = 0
    /\ ExactCell(x) = 1 /\ ExactCell(y) = 0 => l.num = 99883

\* C9: the angle numerator of every cell, negative indices included, is
\* (((ix*13 + iy*23) mod 2^32) * 99991 mod 2^32) mod 100000, lies in
\* 0..99999 with the angle in [0, 2*pi), and is 0 for cell (0,0) and 99883
\* for cell (1,0).
AngleNumeratorWraps ==
    out # None =>
        /\ NumeratorWraps(out.a, probe.x1, probe.y1)
        /\ NumeratorWraps(out.b, probe.x2, probe.y2)

\* A negative cell, whose seed wraps, and a far cell, whose product wraps,
\* were evaluated.
WrappingProbeSeen ==
    /\ out # None
    /\ out.a.ix = -1 /\ out.a.iy = -2 /\ out.a.seed.hi = 65535
    /\ out.b.ix = 6000 /\ out.b.iy = 3

====
